---- MODULE Spec2Model ----
(***************************************************************************)
(* retirepy: future-value projections.                                     *)
(*                                                                         *)
(*   src/retirepy/models.py  FrequencyMeta, Frequency, MoneyFlow,          *)
(*                           Investment                                    *)
(*   src/retirepy/utils.py   compute_compound_interest,                    *)
(*                           compute_future_value_series                   *)
(*   src/retirepy/future_value.py                                          *)
(*                           compute_future_value_series over a number of  *)
(*                           months                                        *)
(*                                                                         *)
(* Numbers.  The code computes with IEEE doubles.  The model computes with *)
(* exact non-negative rationals n/d whose numerator and denominator are    *)
(* arbitrary-precision naturals (TLC's integers are 32 bits wide, and      *)
(* 12000 * 1.07^10 needs more than 80).  A double result differs from the  *)
(* exact one by a relative error of about 1e-13 over the ranges used here, *)
(* far less than any difference the formulas below rest on.  NaN is a      *)
(* value of its own.  The one irrational operation of the code, the        *)
(* fractional power in Investment.compound_interest, is a root rounded     *)
(* down to a multiple of 1/1000.                                           *)
(***************************************************************************)
EXTENDS Integers, Sequences, FiniteSets, TLC

(***************************************************************************)
(* Arbitrary-precision naturals: little-endian sequences of limbs in       *)
(* 0..9999 without a leading zero limb; zero is the empty sequence.        *)
(***************************************************************************)
Limb(x) == x % 10000

Carry(x) == x \div 10000

RECURSIVE BigOfInt(_)
BigOfInt(x) == IF x = 0 THEN <<>> ELSE <<Limb(x)>> \o BigOfInt(Carry(x))

RECURSIVE BigAddC(_, _, _)
BigAddC(a, b, c) ==
    IF a = <<>> /\ b = <<>>
    THEN BigOfInt(c)
    ELSE LET x == IF a = <<>> THEN 0 ELSE Head(a)
             y == IF b = <<>> THEN 0 ELSE Head(b)
             s == x + y + c
         IN  <<Limb(s)>> \o BigAddC(IF a = <<>> THEN a ELSE Tail(a),
                                    IF b = <<>> THEN b ELSE Tail(b),
                                    Carry(s))

BigAdd(a, b) == BigAddC(a, b, 0)

RECURSIVE BigMulIntC(_, _, _)
BigMulIntC(a, m, c) ==
    IF a = <<>>
    THEN BigOfInt(c)
    ELSE LET s == Head(a) * m + c
         IN  <<Limb(s)>> \o BigMulIntC(Tail(a), m, Carry(s))

\* a * m for a limb-sized m (0 <= m <= 9999)
BigMulLimb(a, m) == IF m = 0 THEN <<>> ELSE BigMulIntC(a, m, 0)

BigShift(a) == IF a = <<>> THEN a ELSE <<0>> \o a

RECURSIVE BigMul(_, _)
BigMul(a, b) ==
    IF a = <<>> \/ b = <<>>
    THEN <<>>
    ELSE BigAdd(BigMulLimb(a, Head(b)), BigShift(BigMul(a, Tail(b))))

RECURSIVE BigCmp(_, _)
BigCmp(a, b) ==
    IF Len(a) # Len(b)
    THEN (IF Len(a) < Len(b) THEN -1 ELSE 1)
    ELSE IF a = <<>>
    THEN 0
    ELSE IF a[Len(a)] # b[Len(b)]
    THEN (IF a[Len(a)] < b[Len(b)] THEN -1 ELSE 1)
    ELSE BigCmp(SubSeq(a, 1, Len(a) - 1), SubSeq(b, 1, Len(b) - 1))

BigLeq(a, b) == BigCmp(a, b) <= 0

BigLess(a, b) == BigCmp(a, b) < 0

RECURSIVE BigPow(_, _)
BigPow(a, k) == IF k = 0 THEN <<1>> ELSE BigMul(a, BigPow(a, k - 1))

(***************************************************************************)
(* Floats: NaN, or an exact rational n/d (d > 0), not reduced.             *)
(***************************************************************************)
NaN == [nan |-> TRUE, n |-> <<>>, d |-> <<1>>]

Rat(n, d) == [nan |-> FALSE, n |-> BigOfInt(n), d |-> BigOfInt(d)]

Float(x) == Rat(x, 1)

RatAdd(a, b) ==
    IF a.nan \/ b.nan
    THEN NaN
    ELSE [nan |-> FALSE,
          n |-> BigAdd(BigMul(a.n, b.d), BigMul(b.n, a.d)),
          d |-> BigMul(a.d, b.d)]

RatMul(a, b) ==
    IF a.nan \/ b.nan
    THEN NaN
    ELSE [nan |-> FALSE, n |-> BigMul(a.n, b.n), d |-> BigMul(a.d, b.d)]

\* a / b for b > 0
RatDiv(a, b) ==
    IF a.nan \/ b.nan
    THEN NaN
    ELSE [nan |-> FALSE, n |-> BigMul(a.n, b.d), d |-> BigMul(a.d, b.n)]

RECURSIVE RatPowInt(_, _)
RatPowInt(a, k) == IF k = 0 THEN Float(1) ELSE RatMul(a, RatPowInt(a, k - 1))

\* IEEE equality: NaN equals nothing
RatEq(a, b) == ~a.nan /\ ~b.nan /\ BigMul(a.n, b.d) = BigMul(b.n, a.d)

\* the same double: equal numbers, or NaN on both sides
SameFloat(a, b) == (a.nan /\ b.nan) \/ RatEq(a, b)

SameSeries(s, t) ==
    /\ Len(s) = Len(t)
    /\ \A i \in 1..Len(s) : SameFloat(s[i], t[i])

(***************************************************************************)
(* Dates.  Only first-of-month dates are modelled: a date is a year and a  *)
(* calendar month.                                                         *)
(***************************************************************************)
Date(y, m) == [y |-> y, m |-> m]

MonthNumber(dt) == dt.y * 12 + (dt.m - 1)

AddMonths(dt, k) ==
    LET t == MonthNumber(dt) + k IN Date(t \div 12, (t % 12) + 1)

\* a variant of DateRangeMS that leaves the end month out
DateRangeMS_end_exclusive(start, end) ==
    [i \in 1..(MonthNumber(end) - MonthNumber(start)) |->
        AddMonths(start, i - 1)]

\* pd.date_range(start, end, freq="MS"): every month start in [start, end],
\* in order; empty when end is before start
DateRangeMS(start, end) ==
    [i \in 1..(MonthNumber(end) - MonthNumber(start) + 1) |->
        AddMonths(start, i - 1)]

\* pd.date_range(start, end, freq="YS"): every January 1st in [start, end]
DateRangeYS(start, end) ==
    LET ms == DateRangeMS(start, end)
    IN  SelectSeq(ms, LAMBDA dt : dt.m = 1)

(***************************************************************************)
(* FrequencyMeta and Frequency (models.py).                                *)
(***************************************************************************)
\* a variant of TriggerTable with the quarters at their last months
TriggerTable_quarter_ends ==
    (12 :> <<1, 2, 3, 4, 5, 6, 7, 8, 9, 10, 11, 12>>) @@
    (4 :> <<3, 6, 9, 12>>) @@
    (2 :> <<1, 7>>) @@
    (1 :> <<1>>)

TriggerTable ==
    (12 :> <<1, 2, 3, 4, 5, 6, 7, 8, 9, 10, 11, 12>>) @@
    (4 :> <<1, 4, 7, 10>>) @@
    (2 :> <<1, 7>>) @@
    (1 :> <<1>>)

\* the validator of per_year
ensure_per_year_in_allowed(v) == v \in {1, 2, 4, 12}

NoMeta ==
    [ok |-> FALSE, name |-> "", per_year |-> 0, trigger_months |-> <<>>,
     error |-> ""]

\* FrequencyMeta(name=..., per_year=...): validation runs first (inside
\* BaseModel.__init__), then the table lookup sets _trigger_months.
FrequencyMeta(name, per_year) ==
    IF ~ensure_per_year_in_allowed(per_year)
    THEN [NoMeta EXCEPT !.error = "ValidationError"]
    ELSE [ok |-> TRUE, name |-> name, per_year |-> per_year,
          trigger_months |-> TriggerTable[per_year], error |-> ""]

per_month(fm) == Rat(fm.per_year, 12)

months_between(fm) == 12 \div fm.per_year

MONTHLY_META == FrequencyMeta("Monthly", 12)

YEARLY_META == FrequencyMeta("Yearly", 1)

Frequency == {"Monthly", "Yearly"}

\* month in <list>
InList(x, list) == \E i \in 1..Len(list) : list[i] = x

(***************************************************************************)
(* State.                                                                  *)
(*   meta             the module-level records MONTHLY_META / YEARLY_META, *)
(*                    reached through Frequency.meta                       *)
(*   op, req          the operation in progress (or last finished) and its *)
(*                    arguments                                            *)
(*   pc               "idle" | "loop" | "months" | "done" | "raised"       *)
(*   index            return_series.index, the months of the projection    *)
(*   iloc             the number of loop iterations finished               *)
(*   compound_interest, current_value, return_series   the locals          *)
(*   err              the exception that ended the operation               *)
(*   made             the record a FrequencyMeta(...) call built           *)
(*   first            what the very first projection call returned, as its *)
(*                    caller keeps it                                      *)
(***************************************************************************)
VARIABLES meta, op, req, pc, iloc, index, compound_interest, current_value,
          return_series, err, made, first

vars == <<meta, op, req, pc, iloc, index, compound_interest, current_value,
          return_series, err, made, first>>

InvestmentRequest(s, e, p, r, cf, c, kf, b) ==
    [start_month |-> s, end_month |-> e, principal_investment |-> p,
     annual_interest_rate |-> r, compounding_frequency |-> cf,
     contribution_amount |-> c, contribution_frequency |-> kf,
     contribution_at_start_of_compound_period |-> b]

MoneyFlowRequest(s, e, a, f, g, gf) ==
    [start_month |-> s, end_month |-> e, amount |-> a, frequency |-> f,
     growth_rate |-> g, growth_frequency |-> gf]

\* a rate is a small fraction n/d
Fraction(n, d) == [n |-> n, d |-> d]

FloatOf(q) == Rat(q.n, q.d)

NoReq ==
    InvestmentRequest(Date(0, 1), Date(0, 1), 0, Fraction(0, 1), "Monthly", 0,
                      "Monthly", TRUE)

NoFirst ==
    [set |-> FALSE, op |-> "", req |-> NoReq, pc |-> "idle",
     return_series |-> <<>>, err |-> ""]

InvestmentOps ==
    {"compute_future_value_series", "Investment.future_value",
     "Investment.future_value_old"}

\* Frequency.meta
Meta(f) == meta[f]

\* a variant of compute_compound_interest with a monthly rate whatever the
\* compounding frequency
compound_interest_monthly_rate(annual_interest_rate, compounding_frequency) ==
    RatAdd(Float(1), RatDiv(FloatOf(annual_interest_rate), Float(12)))

(***************************************************************************)
(* utils.compute_compound_interest                                         *)
(***************************************************************************)
compute_compound_interest(annual_interest_rate, compounding_frequency) ==
    LET r == RatDiv(FloatOf(annual_interest_rate),
                    Float(Meta(compounding_frequency).per_year))
        n == 1
    IN  RatPowInt(RatAdd(Float(1), RatDiv(r, Float(n))), n * 1)

(***************************************************************************)
(* x ** (a / b).  a / b is reduced first (12 / 12 is the double 1.0); a    *)
(* root is rounded down to a multiple of 1/1000.                           *)
(***************************************************************************)
RECURSIVE Gcd(_, _)
Gcd(a, b) == IF b = 0 THEN a ELSE Gcd(b, a % b)

\* (k / 1000) ^ b <= x
RootFits(k, b, x) ==
    BigLeq(BigMul(BigPow(BigOfInt(k), b), x.d),
           BigMul(x.n, BigPow(BigOfInt(1000), b)))

RECURSIVE RootAbove(_, _, _)
RootAbove(k, b, x) == IF RootFits(k, b, x) THEN RootAbove(2 * k, b, x) ELSE k

RECURSIVE RootBisect(_, _, _, _)
RootBisect(lo, hi, b, x) ==
    IF hi - lo <= 1
    THEN lo
    ELSE LET mid == (lo + hi) \div 2
         IN  IF RootFits(mid, b, x)
             THEN RootBisect(mid, hi, b, x)
             ELSE RootBisect(lo, mid, b, x)

RatRoot(x, b) == Rat(RootBisect(0, RootAbove(1000, b, x), b, x), 1000)

RatPow(x, a, b) ==
    LET g == Gcd(a, b)
    IN  IF x.nan
        THEN NaN
        ELSE IF b \div g = 1
        THEN RatPowInt(x, a \div g)
        ELSE RatRoot(RatPowInt(x, a \div g), b \div g)

(***************************************************************************)
(* Investment.compound_interest (a property: evaluated at every use)       *)
(***************************************************************************)
Investment_compound_interest(r) ==
    LET rr == RatDiv(FloatOf(r.annual_interest_rate), Float(12))
        fm == Meta(r.compounding_frequency)
        n  == per_month(fm)
    IN  RatPow(RatAdd(Float(1), RatDiv(rr, n)), fm.per_year * 1, 12)

\* the factor written out in Investment.future_value_old
Investment_old_factor(r) ==
    RatAdd(Float(1),
           RatDiv(FloatOf(r.annual_interest_rate),
                  Float(Meta(r.compounding_frequency).per_year)))

\* a variant of LoopBody that compounds before it adds the contribution
LoopBody_compounds_first(value, month, r, factor) ==
    LET contribute ==
            InList(month, Meta(r.contribution_frequency).trigger_months)
        v1 == IF InList(month, Meta(r.compounding_frequency).trigger_months)
              THEN RatMul(value, factor)
              ELSE value
    IN  IF contribute THEN RatAdd(v1, Float(r.contribution_amount)) ELSE v1

\* a variant of LoopBody that ignores the timing flag
LoopBody_ignores_flag(value, month, r, factor) ==
    LET contribute ==
            InList(month, Meta(r.contribution_frequency).trigger_months)
        v1 == IF contribute
              THEN RatAdd(value, Float(r.contribution_amount))
              ELSE value
    IN  IF InList(month, Meta(r.compounding_frequency).trigger_months)
        THEN RatMul(v1, factor)
        ELSE v1

(***************************************************************************)
(* The body of the month loop for iloc > 0, the same text in the three     *)
(* loops: contribution before, compounding, contribution after.            *)
(***************************************************************************)
LoopBody(value, month, r, factor) ==
    LET contribute ==
            InList(month, Meta(r.contribution_frequency).trigger_months)
        before == r.contribution_at_start_of_compound_period
        v1 == IF contribute /\ before
              THEN RatAdd(value, Float(r.contribution_amount))
              ELSE value
        v2 == IF InList(month, Meta(r.compounding_frequency).trigger_months)
              THEN RatMul(v1, factor)
              ELSE v1
        v3 == IF contribute /\ ~before
              THEN RatAdd(v2, Float(r.contribution_amount))
              ELSE v2
    IN  v3

(***************************************************************************)
(* MoneyFlow (models.py)                                                   *)
(***************************************************************************)
\* the validator of growth_frequency: TRUE when construction is refused
ensure_growth_frequency_isnt_more_frequent_than_flow_frequency(r) ==
    Meta(r.growth_frequency).per_year > Meta(r.frequency).per_year

\* p * (1 + r / n) ** (n * t)
GrowthAmount(p, r, t) ==
    LET n == 1
    IN  RatMul(p, RatPowInt(RatAdd(Float(1), RatDiv(FloatOf(r), Float(n))),
                            n * t))

\* series.loc[dates] = values, dates being labels of the series' index ms
SetLoc(series, ms, dates, values) ==
    [i \in 1..Len(series) |->
        IF \E k \in 1..Len(dates) : dates[k] = ms[i]
        THEN values[CHOOSE k \in 1..Len(dates) : dates[k] = ms[i]]
        ELSE series[i]]

\* series.fillna(value=v)
FillNa(series, v) ==
    [i \in 1..Len(series) |-> IF series[i].nan THEN v ELSE series[i]]

\* series.fillna(method="ffill"): the last valid value before a NaN, if any
FFill(series) ==
    [i \in 1..Len(series) |->
        IF ~series[i].nan \/ \A j \in 1..i : series[j].nan
        THEN series[i]
        ELSE series[CHOOSE j \in 1..i :
                        /\ ~series[j].nan
                        /\ \A k \in (j + 1)..i : series[k].nan]]

MoneyFlow_future_value(r) ==
    LET ms  == DateRangeMS(r.start_month, r.end_month)
        nan == [i \in 1..Len(ms) |-> NaN]
    IN  IF r.growth_frequency = "Yearly"
        THEN LET date_range == DateRangeYS(r.start_month, r.end_month)
                 p == RatMul(Float(r.amount), Float(Meta(r.frequency).per_year))
                 a == [k \in 1..Len(date_range) |->
                          GrowthAmount(p, r.growth_rate, k - 1)]
             IN  IF r.frequency = "Yearly"
                 THEN FillNa(SetLoc(nan, ms, date_range, a), Float(0))
                 ELSE FFill(SetLoc(nan, ms, date_range,
                                   [k \in 1..Len(a) |-> RatDiv(a[k], Float(12))]))
        ELSE LET p == RatMul(Float(r.amount), per_month(Meta(r.frequency)))
             IN  SetLoc(nan, ms, ms,
                        [k \in 1..Len(ms) |-> GrowthAmount(p, r.growth_rate, k - 1)])

(***************************************************************************)
(* Inputs                                                                  *)
(***************************************************************************)
StartYear == 2022

\* the longest range is MaxSpan months after its start
MaxSpan == 13

\* an end month up to MaxBack months before the start (an invalid range)
MaxBack == 1

\* the longest range of the calls that are compared with the first call
MaxPairSpan == 3

\* FrequencyMeta is constructed with per_year in 0..MaxPerYear
MaxPerYear == 12

Rates == {Fraction(0, 1), Fraction(7, 100)}

Principals == {0, 12000}

Contributions == {0, 100}

Amounts == {100}

Ranges(months, span) ==
    {<<Date(StartYear, m), AddMonths(Date(StartYear, m), k)>> :
        m \in months, k \in (0 - MaxBack)..span}

InvestmentRequests(ranges) ==
    {InvestmentRequest(se[1], se[2], p, r, cf, c, kf, b) :
        se \in ranges, p \in Principals, r \in Rates, cf \in Frequency,
        c \in Contributions, kf \in Frequency, b \in BOOLEAN}

MoneyFlowRequests(ranges) ==
    {MoneyFlowRequest(se[1], se[2], a, f, g, gf) :
        se \in ranges, a \in Amounts, f \in Frequency, g \in Rates,
        gf \in Frequency}

\* tests/test_utils.py, TESTS, in order
TestRequest(years, cf, c, kf, b) ==
    InvestmentRequest(Date(StartYear, 1), Date(StartYear + years, 1), 12000,
                      Fraction(7, 100), cf, c, kf, b)

TESTS ==
    << [input |-> TestRequest(1, "Monthly", 0, "Monthly", TRUE),
        expected |-> 1286748],
       [input |-> TestRequest(1, "Monthly", 100, "Monthly", TRUE),
        expected |-> 1411397],
       [input |-> TestRequest(1, "Monthly", 100, "Monthly", FALSE),
        expected |-> 1410674],
       [input |-> TestRequest(10, "Yearly", 0, "Yearly", TRUE),
        expected |-> 2360582],
       [input |-> TestRequest(10, "Yearly", 100, "Yearly", TRUE),
        expected |-> 2508418],
       [input |-> TestRequest(10, "Yearly", 100, "Monthly", TRUE),
        expected |-> 4081420] >>

TestRequests == {TESTS[i].input : i \in 1..Len(TESTS)}

\* every single call of utils.compute_future_value_series that is checked
UtilsRequests == InvestmentRequests(Ranges(1..12, MaxSpan)) \cup TestRequests

\* the first calls of a sequence of calls
PairRanges == Ranges({1, 11, 12}, MaxPairSpan)

Toggle(r) ==
    [r EXCEPT !.contribution_at_start_of_compound_period = ~@]

\* After the first call: the same call again, the same call with the timing
\* flag toggled, or either through another of the three loops.
Requests(o) ==
    IF ~first.set
    THEN IF o \in InvestmentOps
         THEN InvestmentRequests(PairRanges)
         ELSE MoneyFlowRequests(PairRanges)
    ELSE IF o \in InvestmentOps /\ first.op \in InvestmentOps
    THEN {first.req, Toggle(first.req)}
    ELSE IF o = first.op
    THEN {first.req}
    ELSE {}

(***************************************************************************)
(* Operations                                                              *)
(***************************************************************************)
Init ==
    /\ meta = [f \in Frequency |->
                  IF f = "Monthly" THEN MONTHLY_META ELSE YEARLY_META]
    /\ op = ""
    /\ req = NoReq
    /\ pc = "idle"
    /\ iloc = 0
    /\ index = <<>>
    /\ compound_interest = NaN
    /\ current_value = NaN
    /\ return_series = <<>>
    /\ err = ""
    /\ made = NoMeta
    /\ first = NoFirst

\* calls are synchronous: one starts when none is running
Ready == pc \in {"idle", "done", "raised"}

\* the caller keeps the outcome of the very first projection call
Keep(o, r, p, rs, e) ==
    IF first.set
    THEN first
    ELSE [set |-> TRUE, op |-> o, req |-> r, pc |-> p, return_series |-> rs,
          err |-> e]

\* The head of the three projections: the NaN series over the month range
\* and return_series.iloc[0] = principal, which raises IndexError on an
\* empty series; `ci` is what the function computes before its loop.
StartSeries(o, r, ci) ==
    LET idx == DateRangeMS(r.start_month, r.end_month)
    IN  /\ Ready
        /\ op' = o
        /\ req' = r
        /\ index' = idx
        /\ iloc' = 0
        /\ current_value' = NaN
        /\ made' = NoMeta
        /\ IF idx = <<>>
           THEN /\ pc' = "raised"
                /\ err' = "IndexError"
                /\ return_series' = <<>>
                /\ compound_interest' = NaN
                /\ first' = Keep(o, r, "raised", <<>>, "IndexError")
           ELSE /\ pc' = "loop"
                /\ err' = ""
                /\ return_series' =
                       [i \in 1..Len(idx) |->
                           IF i = 1 THEN Float(r.principal_investment) ELSE NaN]
                /\ compound_interest' = ci
                /\ first' = first
        /\ UNCHANGED meta

\* One iteration of `for iloc, month in enumerate(return_series.index.month)`
\* with `factor` the multiplier of a compounding month.
LoopIteration(o, factor) ==
    /\ pc = "loop"
    /\ op = o
    /\ iloc < Len(index)
    /\ IF iloc = 0
       THEN /\ current_value' = Float(req.principal_investment)
            /\ UNCHANGED return_series
       ELSE LET v == LoopBody(current_value, index[iloc + 1].m, req, factor)
            IN  /\ current_value' = v
                /\ return_series' = [return_series EXCEPT ![iloc + 1] = v]
    /\ iloc' = iloc + 1
    /\ UNCHANGED <<meta, op, req, pc, index, compound_interest, err, made,
                   first>>

\* utils.compute_future_value_series
compute_future_value_series(r) ==
    StartSeries("compute_future_value_series", r,
                compute_compound_interest(r.annual_interest_rate,
                                          r.compounding_frequency))

compute_future_value_series_loop ==
    LoopIteration("compute_future_value_series", compound_interest)

\* Investment.future_value
Investment_future_value(r) == StartSeries("Investment.future_value", r, NaN)

Investment_future_value_loop ==
    LoopIteration("Investment.future_value", Investment_compound_interest(req))

\* Investment.future_value_old
Investment_future_value_old(r) ==
    StartSeries("Investment.future_value_old", r, NaN)

Investment_future_value_old_loop ==
    LoopIteration("Investment.future_value_old", Investment_old_factor(req))

\* a variant of Return that uses up the shared yearly trigger list
Return_consuming_trigger_months ==
    /\ pc = "loop"
    /\ iloc = Len(index)
    /\ pc' = "done"
    /\ first' = Keep(op, req, "done", return_series, "")
    /\ meta' = [meta EXCEPT !["Yearly"].trigger_months = <<>>]
    /\ UNCHANGED <<op, req, iloc, index, compound_interest, current_value,
                   return_series, err, made>>

\* `return return_series` of the three loops
Return ==
    /\ pc = "loop"
    /\ iloc = Len(index)
    /\ pc' = "done"
    /\ first' = Keep(op, req, "done", return_series, "")
    /\ UNCHANGED <<meta, op, req, iloc, index, compound_interest,
                   current_value, return_series, err, made>>

\* MoneyFlow(...).future_value(): construction (the validators), then the
\* vectorised computation.
MoneyFlow_call(r) ==
    LET refused ==
            ensure_growth_frequency_isnt_more_frequent_than_flow_frequency(r)
        rs == IF refused THEN <<>> ELSE MoneyFlow_future_value(r)
        p  == IF refused THEN "raised" ELSE "done"
        e  == IF refused THEN "ValidationError" ELSE ""
    IN  /\ Ready
        /\ op' = "MoneyFlow.future_value"
        /\ req' = r
        /\ index' = IF refused
                    THEN <<>>
                    ELSE DateRangeMS(r.start_month, r.end_month)
        /\ pc' = p
        /\ err' = e
        /\ return_series' = rs
        /\ iloc' = 0
        /\ current_value' = NaN
        /\ compound_interest' = NaN
        /\ made' = NoMeta
        /\ first' = Keep("MoneyFlow.future_value", r, p, rs, e)
        /\ UNCHANGED meta

\* FrequencyMeta(name="Custom", per_year=py)
FrequencyMeta_call(py) ==
    LET fm == FrequencyMeta("Custom", py)
    IN  /\ Ready
        /\ op' = "FrequencyMeta"
        /\ req' = [name |-> "Custom", per_year |-> py]
        /\ made' = fm
        /\ pc' = IF fm.ok THEN "done" ELSE "raised"
        /\ err' = fm.error
        /\ index' = <<>>
        /\ return_series' = <<>>
        /\ iloc' = 0
        /\ current_value' = NaN
        /\ compound_interest' = NaN
        /\ UNCHANGED <<meta, first>>

(***************************************************************************)
(* Spec: sequences of calls.  The first projection call is any call of the *)
(* input sets; its outcome is kept, and the calls after it are compared    *)
(* with it.                                                                *)
(***************************************************************************)
CallUtils ==
    \E r \in Requests("compute_future_value_series") :
        compute_future_value_series(r)

CallInvestment ==
    \E r \in Requests("Investment.future_value") : Investment_future_value(r)

CallInvestmentOld ==
    \E r \in Requests("Investment.future_value_old") :
        Investment_future_value_old(r)

CallMoneyFlow ==
    \E r \in Requests("MoneyFlow.future_value") : MoneyFlow_call(r)

CallFrequencyMeta == \E py \in 0..MaxPerYear : FrequencyMeta_call(py)

Next ==
    \/ CallMoneyFlow
    \/ CallUtils
    \/ compute_future_value_series_loop
    \/ CallInvestment
    \/ Investment_future_value_loop
    \/ CallInvestmentOld
    \/ Investment_future_value_old_loop
    \/ Return
    \/ CallFrequencyMeta

Spec == Init /\ [][Next]_vars

(***************************************************************************)
(* SpecUtils: one call of utils.compute_future_value_series, over the      *)
(* larger input set and the inputs of the repository's tests.              *)
(***************************************************************************)
CallUtilsOnce ==
    /\ pc = "idle"
    /\ \E r \in UtilsRequests : compute_future_value_series(r)

NextUtils ==
    \/ CallUtilsOnce
    \/ compute_future_value_series_loop
    \/ Return

SpecUtils == Init /\ [][NextUtils]_vars

(***************************************************************************)
(* future_value.py: the projection over a number of months.  Its arrays    *)
(* month_arr and deposits_arr are filled before the loop and never written *)
(* again: they are functions of the arguments.  future_value_arr is        *)
(* return_series; pc is "months" inside its loop.                          *)
(***************************************************************************)
MonthCount == "future_value.compute_future_value_series"

MonthCountRequest(n, p, r, cf, c, kf, b) ==
    [num_months |-> n, principal_investment |-> p,
     annual_interest_rate |-> r, compounding_frequency |-> cf,
     contribution_amount |-> c, contribution_frequency |-> kf,
     contribution_at_start_of_compound_period |-> b]

\* the arguments of the month-count call that go with a date-range call:
\* as many months as pd.date_range counts from start to end, the rest alike
OverMonthsOf(r) ==
    MonthCountRequest(MonthNumber(r.end_month) - MonthNumber(r.start_month) + 1,
                      r.principal_investment, r.annual_interest_rate,
                      r.compounding_frequency, r.contribution_amount,
                      r.contribution_frequency,
                      r.contribution_at_start_of_compound_period)

\* future_value.compute_compound_interest
future_value_compute_compound_interest(annual_interest_rate, compounding_frequency) ==
    LET r == RatDiv(FloatOf(annual_interest_rate),
                    Float(Meta(compounding_frequency).per_year))
        n == 1
    IN  RatPowInt(RatAdd(Float(1), RatDiv(r, Float(n))), n * 1)

\* a variant of month_arr that numbers the months from 0
month_arr_from_zero(num_months) ==
    [i \in 1..num_months |-> (i - 1) % 12]

\* month_range = np.arange(0, num_months); month_arr = (month_range % 12) + 1
\* (position i here is index i - 1 there; empty for num_months <= 0)
month_arr(num_months) ==
    [i \in 1..num_months |-> ((i - 1) % 12) + 1]

\* deposits_arr = zeros; deposits_arr[isin(month_arr, trigger_months)] = amount
deposits_arr(r) ==
    LET months == month_arr(r.num_months)
    IN  [i \in 1..Len(months) |->
            IF InList(months[i], Meta(r.contribution_frequency).trigger_months)
            THEN Float(r.contribution_amount)
            ELSE Float(0)]

\* the body of `for iloc, (month, deposit) in enumerate(iter_arr)`
MonthLoopBody(value, month, deposit, r, factor) ==
    LET before == r.contribution_at_start_of_compound_period
        v1 == IF before THEN RatAdd(value, deposit) ELSE value
        v2 == IF InList(month, Meta(r.compounding_frequency).trigger_months)
              THEN RatMul(v1, factor)
              ELSE v1
        v3 == IF ~before THEN RatAdd(v2, deposit) ELSE v2
    IN  v3

\* The head of the function.  np.zeros(num_months) raises ValueError for a
\* negative num_months, and future_value_arr[0] = principal raises IndexError
\* on an array of no entries.
future_value_compute_future_value_series(r) ==
    /\ Ready
    /\ op' = MonthCount
    /\ req' = r
    /\ index' = <<>>
    /\ iloc' = 0
    /\ made' = NoMeta
    /\ IF r.num_months <= 0
       THEN LET e == IF r.num_months < 0 THEN "ValueError" ELSE "IndexError"
            IN  /\ pc' = "raised"
                /\ err' = e
                /\ return_series' = <<>>
                /\ compound_interest' = NaN
                /\ current_value' = NaN
                /\ first' = Keep(MonthCount, r, "raised", <<>>, e)
       ELSE /\ pc' = "months"
            /\ err' = ""
            /\ return_series' =
                   [i \in 1..r.num_months |->
                       IF i = 1 THEN Float(r.principal_investment) ELSE Float(0)]
            /\ compound_interest' =
                   future_value_compute_compound_interest(
                       r.annual_interest_rate, r.compounding_frequency)
            /\ current_value' = Float(r.principal_investment)
            /\ first' = first
    /\ UNCHANGED meta

\* One iteration over iter_arr, the rows (month, deposit) after the first:
\* iteration iloc reads row iloc + 1 and writes future_value_arr[iloc + 1]
\* (positions iloc + 2 here).
future_value_compute_future_value_series_loop ==
    /\ pc = "months"
    /\ op = MonthCount
    /\ iloc < req.num_months - 1
    /\ LET v == MonthLoopBody(current_value,
                              month_arr(req.num_months)[iloc + 2],
                              deposits_arr(req)[iloc + 2],
                              req, compound_interest)
       IN  /\ current_value' = v
           /\ return_series' = [return_series EXCEPT ![iloc + 2] = v]
    /\ iloc' = iloc + 1
    /\ UNCHANGED <<meta, op, req, pc, index, compound_interest, err, made,
                   first>>

\* `return future_value_arr`
future_value_Return ==
    /\ pc = "months"
    /\ op = MonthCount
    /\ iloc = req.num_months - 1
    /\ pc' = "done"
    /\ first' = Keep(op, req, "done", return_series, "")
    /\ UNCHANGED <<meta, op, req, iloc, index, compound_interest,
                   current_value, return_series, err, made>>

(***************************************************************************)
(* SpecMonths: one call of utils.compute_future_value_series over a date   *)
(* range, its outcome kept, then calls of the month-count function over as *)
(* many months with the other arguments alike.                             *)
(***************************************************************************)
CallUtilsFirst ==
    /\ Ready
    /\ ~first.set
    /\ \E r \in UtilsRequests : compute_future_value_series(r)

CallMonthCount ==
    /\ first.set
    /\ future_value_compute_future_value_series(OverMonthsOf(first.req))

NextMonths ==
    \/ CallUtilsFirst
    \/ compute_future_value_series_loop
    \/ Return
    \/ CallMonthCount
    \/ future_value_compute_future_value_series_loop
    \/ future_value_Return

SpecMonths == Init /\ [][NextMonths]_vars

(***************************************************************************)
(* Properties                                                              *)
(***************************************************************************)
Utils == "compute_future_value_series"

\* the frequencies as the specification tabulates them
EventsPerYear(f) == IF f = "Monthly" THEN 12 ELSE 1

TriggerMonths(f) == IF f = "Monthly" THEN 1..12 ELSE {1}

\* 1 + annual rate / events per year
GrowthFactor(r) ==
    RatAdd(Float(1),
           RatDiv(FloatOf(r.annual_interest_rate),
                  Float(EventsPerYear(r.compounding_frequency))))

IsContributionMonth(dt, r) == dt.m \in TriggerMonths(r.contribution_frequency)

IsCompoundingMonth(dt, r) == dt.m \in TriggerMonths(r.compounding_frequency)

ValidRange(r) == MonthNumber(r.start_month) <= MonthNumber(r.end_month)

Final(series) == series[Len(series)]

\* round(v, 2) is cents / 100:  cents - 1/2 <= 100 v < cents + 1/2
RoundsTo(v, cents) ==
    /\ ~v.nan
    /\ BigLeq(BigMul(BigOfInt(2 * cents - 1), v.d), BigMul(BigOfInt(200), v.n))
    /\ BigLess(BigMul(BigOfInt(200), v.n), BigMul(BigOfInt(2 * cents + 1), v.d))

\* the entries of return_series the loop has written so far
Written == IF pc = "done" THEN Len(index) ELSE iloc

(* a, then b, then c of the stepping rule, from the previous month's value *)
C1_Expected(prev, dt, r) ==
    LET c == Float(r.contribution_amount)
        a == IF IsContributionMonth(dt, r)
                /\ r.contribution_at_start_of_compound_period
             THEN RatAdd(prev, c)
             ELSE prev
        b == IF IsCompoundingMonth(dt, r) THEN RatMul(a, GrowthFactor(r)) ELSE a
    IN  IF IsContributionMonth(dt, r)
           /\ ~r.contribution_at_start_of_compound_period
        THEN RatAdd(b, c)
        ELSE b

C2_OneEntryPerMonth ==
    (op = Utils /\ pc # "idle" /\ ValidRange(req)) =>
        /\ pc \in {"loop", "done"}
        /\ Len(return_series) =
               12 * (req.end_month.y - req.start_month.y)
               + (req.end_month.m - req.start_month.m) + 1
        /\ Len(index) = Len(return_series)
        /\ index[1] = req.start_month
        /\ index[Len(index)] = req.end_month
        /\ \A i \in 2..Len(index) :
              LET this == index[i]
                  prev == index[i - 1]
              IN  /\ this.m \in 1..12
                  /\ \/ this.y = prev.y /\ this.m = prev.m + 1
                     \/ this.y = prev.y + 1 /\ this.m = 1 /\ prev.m = 12

C2_Witness ==
    /\ op = Utils
    /\ pc = "done"
    /\ req.start_month.m = 11
    /\ req.end_month.y = StartYear + 1
    /\ Len(return_series) = MaxSpan + 1

(* C3: for the sixth test (principal 12000, rate 0.07, yearly compounding, *)
(* 100 contributed monthly at the start of the period, 2022-01 to          *)
(* 2032-01) the final value rounds to 40814.20.                            *)
C3_SixthTestValue ==
    (op = Utils /\ pc = "done" /\ req = TESTS[6].input) =>
        RoundsTo(Final(return_series), TESTS[6].expected)

\* what the loop returns for the sixth test: 41346.14
C3_LoopValue ==
    (op = Utils /\ pc = "done" /\ req = TESTS[6].input) =>
        RoundsTo(Final(return_series), 4134614)

\* a later call of compute_future_value_series has returned, and it is the
\* first call with the timing flag toggled
ToggledPair ==
    /\ first.set
    /\ first.op = Utils
    /\ first.pc = "done"
    /\ op = Utils
    /\ pc = "done"
    /\ req = Toggle(first.req)

\* some month of idx from position `from` on triggers both
Coincide(idx, r, from) ==
    \E i \in from..Len(idx) :
        IsContributionMonth(idx[i], r) /\ IsCompoundingMonth(idx[i], r)

(* C4 as stated: toggling the timing flag changes the final value whenever *)
(* some month of [start, end] is both a contribution month and a           *)
(* compounding month.                                                      *)
C4_ToggleChangesFinal ==
    (ToggledPair /\ Coincide(index, req, 1)) =>
        ~RatEq(Final(return_series), Final(first.return_series))

(* C4 as amended: toggling the timing flag changes the final value         *)
(* whenever the contribution amount and the annual rate are positive and   *)
(* some month after the start month, up to end, is both a contribution     *)
(* month and a compounding month.                                          *)
C4_ToggleChangesFinalAmended ==
    (/\ ToggledPair
     /\ req.contribution_amount > 0
     /\ req.annual_interest_rate.n > 0
     /\ Coincide(index, req, 2)) =>
        ~RatEq(Final(return_series), Final(first.return_series))

C4_Witness ==
    /\ ToggledPair
    /\ req.contribution_amount > 0
    /\ req.annual_interest_rate.n > 0
    /\ req.compounding_frequency = "Yearly"
    /\ req.contribution_frequency = "Monthly"
    /\ req.start_month.m = 11
    /\ Coincide(index, req, 2)
    /\ ~RatEq(Final(return_series), Final(first.return_series))

\* f^0 + ... + f^(k-1)
RECURSIVE GeomSum(_, _)
GeomSum(f, k) ==
    IF k = 0 THEN Float(0) ELSE RatAdd(Float(1), RatMul(f, GeomSum(f, k - 1)))

\* the trigger months after the start month, up to end
TriggersAfterStart(idx, r) ==
    Cardinality({i \in 2..Len(idx) : IsCompoundingMonth(idx[i], r)})

\* P f^N + c (f^1 + ... + f^N)  or  P f^N + c (f^0 + ... + f^(N-1))
ClosedForm(r, N) ==
    LET f == GrowthFactor(r)
        g == GeomSum(f, N)
    IN  RatAdd(RatMul(Float(r.principal_investment), RatPowInt(f, N)),
               RatMul(Float(r.contribution_amount),
                      IF r.contribution_at_start_of_compound_period
                      THEN RatMul(f, g)
                      ELSE g))

(* C5: when the contribution frequency is the compounding frequency, the   *)
(* final value is the closed form of the reference calculator over the N   *)
(* trigger months after start: P f^N + c (f + ... + f^N) for contributions *)
(* at the start of the period, P f^N + c (1 + ... + f^(N-1)) at its end;   *)
(* for the first five tests it rounds to the tests' expected values.       *)
C5_ClosedFormFinal ==
    (/\ op = Utils
     /\ pc = "done"
     /\ req.contribution_frequency = req.compounding_frequency) =>
        /\ RatEq(Final(return_series),
                 ClosedForm(req, TriggersAfterStart(index, req)))
        /\ \A k \in 1..5 :
              req = TESTS[k].input =>
                  RoundsTo(Final(return_series), TESTS[k].expected)

C5_Witness ==
    /\ op = Utils
    /\ pc = "done"
    /\ req = TESTS[5].input
    /\ TriggersAfterStart(index, req) = 10
    /\ RoundsTo(Final(return_series), 2508418)

IsProjection == op \in InvestmentOps \cup {"MoneyFlow.future_value"}

(* C6: a projection whose end month precedes its start month fails with    *)
(* InvalidRangeError and returns no sequence, through                      *)
(* compute_future_value_series, Investment.future_value and                *)
(* MoneyFlow.future_value alike.                                           *)
C6_InvalidRangeFails ==
    (IsProjection /\ pc # "idle" /\ ~ValidRange(req)
     /\ (op = "MoneyFlow.future_value" => err # "ValidationError")) =>
        pc = "raised" /\ err = "InvalidRangeError"

\* what the code does with such a range
C6_LoopsRaiseIndexError ==
    (op \in InvestmentOps /\ pc # "idle" /\ ~ValidRange(req)) =>
        pc = "raised" /\ err = "IndexError"

C6_MoneyFlowReturnsEmpty ==
    (op = "MoneyFlow.future_value" /\ pc # "idle" /\ ~ValidRange(req)
     /\ err # "ValidationError") =>
        pc = "done" /\ return_series = <<>>

(* C7: with yearly growth and a monthly flow, MoneyFlow.future_value gives *)
(* every month of [start, end] the value                                   *)
(* (amount * 12 * (1 + growth_rate)^yearIndex) / 12, yearIndex counting    *)
(* calendar years from the year of start.                                  *)
C7_YearlyGrowthMonthlyFlow ==
    (/\ op = "MoneyFlow.future_value"
     /\ pc = "done"
     /\ req.growth_frequency = "Yearly"
     /\ req.frequency = "Monthly") =>
        /\ Len(return_series) = Len(index)
        /\ \A i \in 1..Len(index) :
              LET yearIndex == index[i].y - req.start_month.y
                  annual ==
                      RatMul(RatMul(Float(req.amount), Float(12)),
                             RatPowInt(RatAdd(Float(1), FloatOf(req.growth_rate)),
                                       yearIndex))
              IN  RatEq(return_series[i], RatDiv(annual, Float(12)))

\* the same for ranges that start in a January, where the code agrees
C7_JanuaryStart ==
    (/\ op = "MoneyFlow.future_value"
     /\ pc = "done"
     /\ req.growth_frequency = "Yearly"
     /\ req.frequency = "Monthly"
     /\ req.start_month.m = 1) =>
        C7_YearlyGrowthMonthlyFlow

InitialMeta ==
    [f \in Frequency |-> IF f = "Monthly" THEN MONTHLY_META ELSE YEARLY_META]

\* the running or finished call is the first call again
SameCallAgain ==
    /\ first.set
    /\ IsProjection
    /\ op = first.op
    /\ req = first.req

C9_TriggerMonths ==
    op = "FrequencyMeta" =>
        IF req.per_year \in {1, 2, 4, 12}
        THEN /\ pc = "done"
             /\ made.ok
             /\ made.per_year = req.per_year
             /\ months_between(made) * req.per_year = 12
             /\ Len(made.trigger_months) = req.per_year
             /\ \A i \in 1..Len(made.trigger_months) :
                   /\ made.trigger_months[i] = 1 + (i - 1) * months_between(made)
                   /\ made.trigger_months[i] \in 1..12
             /\ Cardinality({made.trigger_months[i] :
                                i \in 1..Len(made.trigger_months)})
                    = req.per_year
        ELSE /\ pc = "raised"
             /\ err = "ValidationError"
             /\ ~made.ok
             /\ made.trigger_months = <<>>

C9_Witness ==
    /\ op = "FrequencyMeta"
    /\ req.per_year = 4
    /\ pc = "done"
    /\ made.trigger_months = <<1, 4, 7, 10>>

(* C10: the three stepping loops are equivalent: for the same request      *)
(* Investment.future_value, Investment.future_value_old and                *)
(* utils.compute_future_value_series return the same value sequence.       *)
C10_LoopsEquivalent ==
    (/\ first.set
     /\ first.pc = "done"
     /\ first.op \in InvestmentOps
     /\ op \in InvestmentOps
     /\ pc = "done"
     /\ req = first.req) =>
        SameSeries(return_series, first.return_series)

\* the two loops that do agree
C10_OldLoopIsUtils ==
    (/\ first.set
     /\ first.pc = "done"
     /\ first.op \in {Utils, "Investment.future_value_old"}
     /\ op \in {Utils, "Investment.future_value_old"}
     /\ pc = "done"
     /\ req = first.req) =>
        SameSeries(return_series, first.return_series)

\* and all three with monthly compounding
C10_MonthlyCompounding ==
    (/\ first.set
     /\ first.pc = "done"
     /\ first.op \in InvestmentOps
     /\ op \in InvestmentOps
     /\ pc = "done"
     /\ req = first.req
     /\ req.compounding_frequency = "Monthly") =>
        SameSeries(return_series, first.return_series)

\* a month-count call over N >= 1 months that goes with the first call, a
\* call of utils.compute_future_value_series
MonthPair ==
    /\ first.set
    /\ first.op = Utils
    /\ op = MonthCount
    /\ req.num_months >= 1
    /\ req = OverMonthsOf(first.req)

JanuaryPair == MonthPair /\ first.req.start_month.m = 1

C11_AnyStartMonth ==
    (MonthPair /\ pc = "done") =>
        SameSeries(return_series, first.return_series)

\* a range that starts in a February, where the two results differ
C11_DiffersOffJanuary ==
    /\ MonthPair
    /\ pc = "done"
    /\ first.pc = "done"
    /\ first.req.start_month.m = 2
    /\ ~SameSeries(return_series, first.return_series)

====
